---- MODULE Spec2Model ----
(***************************************************************************)
(* Model of the trivialaugment result tooling.                             *)
(*                                                                         *)
(*   results.py          the aggregation script: process_checkpoint_dir is *)
(*                       called for wrn_40x2, then for wrn_28x2, then the  *)
(*                       comparison table is printed.                      *)
(*   run_experiments.py  the batch runner: NUM_RUNS training subprocesses  *)
(*                       started one after the other.                      *)
(*                                                                         *)
(* Strings the code inspects character by character (paths, prefixes, the  *)
(* operator's answer) are sequences of one-character strings.  Floating    *)
(* point values are fixed-point numbers in thousandths, tagged with their  *)
(* kind (a number or NaN).                                                 *)
(***************************************************************************)
EXTENDS Integers, Sequences, FiniteSets, TLC

VARIABLES
    \* ---- results.py, module level
    aug_methods,        \* the method registry, in insertion order
    stage,              \* position of the module-level script
    results_wrn40x2,    \* value bound by line 108
    results_wrn28x2,    \* value bound by line 120
    comparison,         \* rows printed by the comparison summary
    \* ---- results.py, the running call of process_checkpoint_dir
    pc,                 \* position inside process_checkpoint_dir
    checkpoint_dir,     \* its first argument
    visited,            \* paths of drive_checkpoints the loop has consumed
    ckpt_path,          \* loop variable of line 35
    artifact,           \* the file found at ckpt_path
    filename,           \* line 42
    method,             \* the registry label the loop of line 45 stopped at
    results_by_method,  \* line 32
    all_results,        \* line 33
    out,                \* what the last step printed
    raised,             \* exception that left process_checkpoint_dir
    loaded,             \* history, per directory: the number of files the
                        \* scan has seen, and how many of them hold a
                        \* readable record with a numeric log.test.top1
    \* ---- run_experiments.py
    rpc,                \* position inside main
    run_num,            \* loop variable of line 81
    results,            \* line 77
    launched,           \* run numbers handed to subprocess.run, in order
    choice,             \* line 90
    success_count       \* line 107

aggVars == <<aug_methods, stage, results_wrn40x2, results_wrn28x2, comparison,
             pc, checkpoint_dir, visited, ckpt_path, artifact, filename,
             method, results_by_method, all_results, out, raised, loaded>>

runVars == <<rpc, run_num, results, launched, choice, success_count>>

vars == <<aug_methods, stage, results_wrn40x2, results_wrn28x2, comparison,
          pc, checkpoint_dir, visited, ckpt_path, artifact, filename,
          method, results_by_method, all_results, out, raised, loaded,
          rpc, run_num, results, launched, choice, success_count>>

-----------------------------------------------------------------------------
(* Bounds of the model                                                     *)

\* most files a directory scan sees
MaxFiles == 2

-----------------------------------------------------------------------------
(* Strings                                                                 *)

Slash == "/"

Backslash == "\\"

\* str.startswith
StartsWith(s, p) == /\ Len(p) <= Len(s)
                    /\ SubSeq(s, 1, Len(p)) = p

\* position of the first sep in s at or after i, 0 when there is none
RECURSIVE Find(_, _, _)
Find(s, sep, i) ==
    IF i > Len(s) THEN 0
    ELSE IF s[i] = sep THEN i
    ELSE Find(s, sep, i + 1)

\* str.split(sep) for a one-character separator
RECURSIVE Split(_, _)
Split(s, sep) ==
    LET k == Find(s, sep, 1)
    IN  IF k = 0 THEN <<s>>
        ELSE <<SubSeq(s, 1, k - 1)>> \o Split(SubSeq(s, k + 1, Len(s)), sep)

\* seq[-1]
LastOf(seq) == seq[Len(seq)]

-----------------------------------------------------------------------------
(* Floating point: fixed-point thousandths, or NaN                         *)

Num(x) == [kind |-> "num", v |-> x]

NaN == [kind |-> "nan", v |-> 0]

IsNaN(x) == x.kind = "nan"

\* thousandths of the integer k
Fixed(k) == k * 1000

FSub(a, b) == IF IsNaN(a) \/ IsNaN(b) THEN NaN ELSE Num(a.v - b.v)

FMul(a, b) == IF IsNaN(a) \/ IsNaN(b) THEN NaN ELSE Num((a.v * b.v) \div 1000)

\* numpy float division: 0/0 is NaN (a RuntimeWarning, no exception)
FDiv(a, b) ==
    IF IsNaN(a) \/ IsNaN(b) \/ b.v = 0 THEN NaN
    ELSE Num((a.v * 1000) \div b.v)

\* largest r in lo..hi with r * r <= x
RECURSIVE SqrtSearch(_, _, _)
SqrtSearch(x, lo, hi) ==
    IF lo >= hi THEN lo
    ELSE LET mid == (lo + hi + 1) \div 2
         IN  IF mid <= x \div mid THEN SqrtSearch(x, mid, hi)
             ELSE SqrtSearch(x, lo, mid - 1)

ISqrt(x) == SqrtSearch(x, 0, x)

\* np.sqrt of a non-negative fixed-point value
FSqrt(a) == IF IsNaN(a) THEN NaN ELSE Num(ISqrt(a.v * 1000))

RECURSIVE SumSeq(_)
SumSeq(s) == IF s = <<>> THEN 0 ELSE s[1] + SumSeq(Tail(s))

\* sum of squared deviations from m, in thousandths
RECURSIVE SumSqDev(_, _)
SumSqDev(s, m) ==
    IF s = <<>> THEN 0
    ELSE (((s[1] - m) * (s[1] - m)) \div 1000) + SumSqDev(Tail(s), m)

\* np.mean
NpMean(data) ==
    IF Len(data) = 0 THEN NaN ELSE Num(SumSeq(data) \div Len(data))

\* np.std(data, ddof=1): the divisor n - 1 is 0 for a single value, and
\* numpy then returns NaN
NpStd(data) ==
    LET n == Len(data)
    IN  IF n - 1 <= 0 THEN NaN
        ELSE FSqrt(Num(SumSqDev(data, NpMean(data).v) \div (n - 1)))

\* 97.5th percentile of Student's t, df = 1..10, in thousandths
TTable == <<12706, 4303, 3182, 2776, 2571, 2447, 2365, 2306, 2262, 2228>>

\* stats.t.ppf(0.975, df): NaN when df <= 0; beyond the table the normal
\* limit stands in (no scan of the model reaches it)
TPpf(df) ==
    IF df <= 0 THEN NaN
    ELSE IF df <= Len(TTable) THEN Num(TTable[df])
    ELSE Num(1960)

compute_95_ci(data) ==
    LET n      == Len(data)
        mean   == NpMean(data)
        std    == NpStd(data)
        se     == FDiv(std, FSqrt(Num(Fixed(n))))
        t_crit == TPpf(n - 1)
        ci     == FMul(t_crit, se)
    IN  [mean |-> mean, ci |-> ci]

\* f'{x:.2f}': hundredths, rounded; NaN prints as "nan"
Fmt2(x) == IF IsNaN(x) THEN [text |-> "nan"] ELSE [text |-> "num", h |-> (x.v + 5) \div 10]

-----------------------------------------------------------------------------
(* The method registry (results.py, lines 8-14)                            *)

AugMethods ==
    << [label |-> "FAA (RA)",  prefix |-> <<"e","x","p","F","A","A">>],
       [label |-> "UA (UA)",   prefix |-> <<"e","x","p","U","A","u","a">>],
       [label |-> "UA (RA)",   prefix |-> <<"e","x","p","U","A","r","a">>],
       [label |-> "TA (RA)",   prefix |-> <<"e","x","p","T","A","r","a">>],
       [label |-> "TA (Wide)", prefix |-> <<"e","x","p","T","A","w","i","d","e">>] >>

\* aug_methods.keys()
KeySet(reg) == {reg[i].label : i \in 1..Len(reg)}

\* no registry entry matched
Unclassified == "unclassified"

\* lines 45-48: the label at which the loop breaks
RECURSIVE MatchFrom(_, _, _)
MatchFrom(reg, name, i) ==
    IF i > Len(reg) THEN Unclassified
    ELSE IF StartsWith(name, reg[i].prefix) THEN reg[i].label
    ELSE MatchFrom(reg, name, i + 1)

MatchMethod(reg, name) == MatchFrom(reg, name, 1)

\* only the forward slash is taken as a separator
BareFilename_SlashOnly(path) == LastOf(Split(path, Slash))

\* line 42
BareFilename(path) == LastOf(Split(LastOf(Split(path, Slash)), Backslash))

-----------------------------------------------------------------------------
(* Directories and the files the scan can meet                             *)

Wrn40x2 == <<"w","r","n","_","4","0","x","2">>

Wrn28x2 == <<"w","r","n","_","2","8","x","2">>

PthExt == <<".","p","t","h">>

\* file names of a checkpoint directory, without the extension
FileStems ==
    { <<"e","x","p","F","A","A","_","1">>,
      <<"e","x","p","U","A","u","a","_","1">>,
      <<"g","a","r","b","a","g","e">>,
      <<"x","\\","e","x","p","F","A","A","_","1">> }

\* glob.glob(f'{checkpoint_dir}/*.pth'): the paths the pattern can yield
GlobPaths(dir, stems) == { dir \o <<Slash>> \o st \o PthExt : st \in stems }

\* a top1 value: a Python float, or an array with more than one element
Scalar(x) == [dim |-> 0, v |-> x]

Vector(x) == [dim |-> 1, v |-> x]

\* what torch.load returns for a readable file; accuracies in thousandths
Checkpoints ==
    { [log |-> [test |-> [top1 |-> Scalar(963)]], epoch |-> 200],
      [log |-> [test |-> [top1 |-> Scalar(965)]]],
      [epoch |-> 200],
      [log |-> [train |-> [top1 |-> Scalar(990)]], epoch |-> 200],
      [log |-> [test |-> [loss |-> Scalar(120)]], epoch |-> 200],
      [log |-> [test |-> [top1 |-> Vector(963)]], epoch |-> 200] }

\* the files: readable ones holding a checkpoint, and a corrupt one
FileContents ==
    { [readable |-> TRUE, ckpt |-> c] : c \in Checkpoints }
      \cup { [readable |-> FALSE, ckpt |-> [corrupt |-> TRUE]] }

\* the file is one the scan is meant to load: it can be deserialized and
\* its record holds a number at log.test.top1
LoadsOk(file) ==
    /\ file.readable
    /\ "log" \in DOMAIN file.ckpt
    /\ "test" \in DOMAIN file.ckpt.log
    /\ "top1" \in DOMAIN file.ckpt.log.test
    /\ file.ckpt.log.test.top1.dim = 0

-----------------------------------------------------------------------------
(* process_checkpoint_dir (results.py, lines 27-92)                        *)

NoException == "none"

\* classes derived from Exception that the loop body can raise
ExceptionClasses == {"UnpicklingError", "KeyError", "TypeError"}

\* a handler written for the missing key alone
Catches_KeyErrorOnly(exc) == exc = "KeyError"

\* line 56: except Exception
Catches(exc) == exc \in ExceptionClasses

\* Python values bound to results_wrn40x2 / results_wrn28x2
Unbound == [tag |-> "unbound"]

None == [tag |-> "None"]

Dict(m) == [tag |-> "dict", value |-> m]

\* truth value of a Python object in an if
Truthy(x) == x.tag = "dict" /\ DOMAIN x.value # {}

\* the test made on the classified samples instead of on all results
HasResults_Classified(all) == \E m \in DOMAIN results_by_method : results_by_method[m] # <<>>

\* line 59: if all_results
HasResults(all) == all # <<>>

\* one mapping kept at module level and handed to every call
NewResultsByMethod_Shared(reg) ==
    IF results_wrn40x2.tag = "dict" THEN results_wrn40x2.value
    ELSE [m \in KeySet(reg) |-> <<>>]

\* line 32
NewResultsByMethod(reg) == [m \in KeySet(reg) |-> <<>>]

\* line 41: ckpt.get('epoch', 'N/A')
GetEpoch(ckpt) ==
    IF "epoch" \in DOMAIN ckpt THEN [known |-> TRUE, value |-> ckpt.epoch]
    ELSE [known |-> FALSE]

\* the accuracy appended as the fraction it is stored as
Percent_Fraction(test_acc) == test_acc

\* line 47: test_acc * 100
Percent(test_acc) == test_acc * 100

\* lines 50-55
RunRow(fname, epoch, test_acc, test_error) ==
    [Checkpoint |-> fname,
     Epoch      |-> epoch,
     TestAcc    |-> Fmt2(Num(Percent(test_acc))),
     TestError  |-> Fmt2(Num(Percent(test_error)))]

\* lines 36-55: the try block for one file.  exc is the exception it ends
\* with; rbm and all are the two collections as the block leaves them.
TryBlock(reg, path, file, rbm, all) ==
    IF ~file.readable
    THEN [exc |-> "UnpicklingError", named |-> FALSE, filename |-> <<>>,
          method |-> Unclassified, rbm |-> rbm, all |-> all]
    ELSE
    LET ckpt == file.ckpt IN
    IF "log" \in DOMAIN ckpt /\ "test" \in DOMAIN ckpt.log
    THEN
        IF "top1" \notin DOMAIN ckpt.log.test
        THEN [exc |-> "KeyError", named |-> FALSE, filename |-> <<>>,
              method |-> Unclassified, rbm |-> rbm, all |-> all]
        ELSE
        LET test_acc   == ckpt.log.test.top1
            test_error == Fixed(1) - test_acc.v
            epoch      == GetEpoch(ckpt)
            fname      == BareFilename(path)
            m          == MatchMethod(reg, fname)
            rbm2       == IF m = Unclassified THEN rbm
                          ELSE [rbm EXCEPT ![m] = Append(@, Percent(test_acc.v))]
        IN  IF test_acc.dim # 0
            \* line 53: an array does not accept the format '.2f'
            THEN [exc |-> "TypeError", named |-> TRUE, filename |-> fname,
                  method |-> m, rbm |-> rbm2, all |-> all]
            ELSE [exc |-> NoException, named |-> TRUE, filename |-> fname,
                  method |-> m, rbm |-> rbm2,
                  all |-> Append(all, RunRow(fname, epoch, test_acc.v, test_error))]
    ELSE [exc |-> NoException, named |-> FALSE, filename |-> <<>>,
          method |-> Unclassified, rbm |-> rbm, all |-> all]

\* line 57
ErrorLine(path, exc) == [kind |-> "error", path |-> path, cause |-> exc]

Silent == [kind |-> "nothing"]

\* the characters of the model's strings, in code-point order
Alphabet ==
    << ".", "/", "0", "1", "2", "3", "4", "5", "6", "7", "8", "9",
       "A", "B", "C", "D", "E", "F", "G", "H", "I", "J", "K", "L", "M",
       "N", "O", "P", "Q", "R", "S", "T", "U", "V", "W", "X", "Y", "Z",
       "\\", "_",
       "a", "b", "c", "d", "e", "f", "g", "h", "i", "j", "k", "l", "m",
       "n", "o", "p", "q", "r", "s", "t", "u", "v", "w", "x", "y", "z" >>

Ord(c) == CHOOSE i \in 1..Len(Alphabet) : Alphabet[i] = c

\* a <= b as Python compares strings
RECURSIVE StrLeq(_, _)
StrLeq(a, b) ==
    IF a = <<>> THEN TRUE
    ELSE IF b = <<>> THEN FALSE
    ELSE IF a[1] = b[1] THEN StrLeq(Tail(a), Tail(b))
    ELSE Ord(a[1]) < Ord(b[1])

\* row put behind the rows of sorted that are not larger
RECURSIVE InsertRow(_, _)
InsertRow(sorted, row) ==
    IF sorted = <<>> THEN <<row>>
    ELSE IF StrLeq(sorted[1].Checkpoint, row.Checkpoint)
         THEN <<sorted[1]>> \o InsertRow(Tail(sorted), row)
         ELSE <<row>> \o sorted

\* line 61: df.sort_values('Checkpoint')
RECURSIVE SortValues(_)
SortValues(rows) ==
    IF rows = <<>> THEN <<>>
    ELSE InsertRow(SortValues(SubSeq(rows, 1, Len(rows) - 1)), rows[Len(rows)])

\* lines 76-80: the aggregated row of one method
AggregatedRow(label, accs) ==
    IF Len(accs) > 0
    THEN LET st == compute_95_ci(accs)
         IN  [method |-> label, na |-> FALSE, n |-> Len(accs),
              mean |-> Fmt2(st.mean), ci |-> Fmt2(st.ci)]
    ELSE [method |-> label, na |-> TRUE]

\* methods without samples left out, as the comparison does
RECURSIVE RowsWithSamples(_, _, _)
RowsWithSamples(reg, rbm, i) ==
    IF i > Len(reg) THEN <<>>
    ELSE IF Len(rbm[reg[i].label]) > 0
         THEN <<AggregatedRow(reg[i].label, rbm[reg[i].label])>>
              \o RowsWithSamples(reg, rbm, i + 1)
         ELSE RowsWithSamples(reg, rbm, i + 1)

AggregatedRows_SkipEmpty(reg, rbm) == RowsWithSamples(reg, rbm, 1)

\* lines 74-80
AggregatedRows(reg, rbm) ==
    [i \in 1..Len(reg) |-> AggregatedRow(reg[i].label, rbm[reg[i].label])]

\* lines 60-87: everything printed for a directory with results
Report(reg, rbm, all, paper_results) ==
    [kind       |-> "report",
     individual |-> SortValues(all),
     aggregated |-> AggregatedRows(reg, rbm),
     paper      |-> paper_results]

\* line 91
NoCheckpoints(dir) == [kind |-> "no checkpoints", dir |-> dir]

\* format '+14.2f'
Fmt2Signed(x) ==
    IF IsNaN(x) THEN [text |-> "nan"]
    ELSE [text |-> "num", h |-> (x.v + 5) \div 10,
          sign |-> IF x.v < 0 THEN "-" ELSE "+"]

\* the operands of the subtraction exchanged
Difference_Reversed(mean_40, mean_28) == FSub(mean_28, mean_40)

\* line 139
Difference(mean_40, mean_28) == FSub(mean_40, mean_28)

\* lines 133-140: the comparison rows of registry entries i..Len(reg)
RECURSIVE ComparisonRows(_, _, _, _)
ComparisonRows(reg, r40, r28, i) ==
    IF i > Len(reg) THEN <<>>
    ELSE
    LET accs_40 == r40[reg[i].label]
        accs_28 == r28[reg[i].label]
        rest    == ComparisonRows(reg, r40, r28, i + 1)
    IN  IF Len(accs_40) > 0 /\ Len(accs_28) > 0
        THEN LET s40 == compute_95_ci(accs_40)
                 s28 == compute_95_ci(accs_28)
             IN  << [method  |-> reg[i].label,
                     mean_40 |-> Fmt2(s40.mean), ci_40 |-> Fmt2(s40.ci),
                     mean_28 |-> Fmt2(s28.mean), ci_28 |-> Fmt2(s28.ci),
                     diff    |-> Fmt2Signed(Difference(s40.mean, s28.mean))] >>
                 \o rest
        ELSE rest

\* line 125
BothPresent(r40, r28) == Truthy(r40) /\ Truthy(r28)

-----------------------------------------------------------------------------
(* results.py as a state machine                                           *)

NoPath == <<>>

NoFile == [readable |-> FALSE, ckpt |-> [corrupt |-> TRUE]]

NotPrinted == [printed |-> FALSE]

\* the frame of process_checkpoint_dir when no call is running
NoCall ==
    /\ pc' = "idle"
    /\ checkpoint_dir' = NoPath
    /\ visited' = {}
    /\ ckpt_path' = NoPath
    /\ artifact' = NoFile
    /\ filename' = NoPath
    /\ method' = Unclassified
    /\ results_by_method' = NewResultsByMethod(AugMethods)
    /\ all_results' = <<>>

AggInit ==
    /\ aug_methods = AugMethods
    /\ stage = "start"
    /\ results_wrn40x2 = Unbound
    /\ results_wrn28x2 = Unbound
    /\ comparison = NotPrinted
    /\ pc = "idle"
    /\ checkpoint_dir = NoPath
    /\ visited = {}
    /\ ckpt_path = NoPath
    /\ artifact = NoFile
    /\ filename = NoPath
    /\ method = Unclassified
    /\ results_by_method = NewResultsByMethod(AugMethods)
    /\ all_results = <<>>
    /\ out = Silent
    /\ raised = NoException
    /\ loaded = [d \in {"wrn40x2", "wrn28x2"} |-> [seen |-> 0, ok |-> 0]]

\* lines 29-33: entry of process_checkpoint_dir(dir, ...)
Enter(dir) ==
    /\ pc' = "loop"
    /\ checkpoint_dir' = dir
    /\ visited' = {}
    /\ ckpt_path' = NoPath
    /\ artifact' = NoFile
    /\ filename' = NoPath
    /\ method' = Unclassified
    /\ results_by_method' = NewResultsByMethod(aug_methods)
    /\ all_results' = <<>>
    /\ out' = Silent
    /\ UNCHANGED <<aug_methods, results_wrn40x2, results_wrn28x2, comparison, raised,
                   loaded>>

\* line 108
Call40 ==
    /\ stage = "start"
    /\ stage' = "wrn40x2"
    /\ Enter(Wrn40x2)
    /\ UNCHANGED runVars

\* line 120
Call28 ==
    /\ stage = "between"
    /\ stage' = "wrn28x2"
    /\ Enter(Wrn28x2)
    /\ UNCHANGED runVars

\* lines 35-57: one iteration of the loop over drive_checkpoints
ScanCheckpoint ==
    /\ pc = "loop"
    /\ Cardinality(visited) < MaxFiles
    /\ \E path \in GlobPaths(checkpoint_dir, FileStems) \ visited :
       \E file \in FileContents :
         LET r == TryBlock(aug_methods, path, file, results_by_method, all_results)
         IN  /\ visited' = visited \cup {path}
             /\ ckpt_path' = path
             /\ artifact' = file
             /\ filename' = IF r.named THEN r.filename ELSE filename
             /\ method' = IF r.named THEN r.method ELSE method
             /\ results_by_method' = r.rbm
             /\ all_results' = r.all
             /\ loaded' = [loaded EXCEPT ![stage] =
                                [seen |-> @.seen + 1,
                                 ok   |-> @.ok + (IF LoadsOk(file) THEN 1 ELSE 0)]]
             /\ IF r.exc = NoException
                THEN /\ out' = Silent
                     /\ UNCHANGED <<pc, stage, raised>>
                ELSE IF Catches(r.exc)
                THEN /\ out' = ErrorLine(path, r.exc)
                     /\ UNCHANGED <<pc, stage, raised>>
                ELSE /\ out' = Silent
                     /\ raised' = r.exc
                     /\ pc' = "crashed"
                     /\ stage' = "crashed"
    /\ UNCHANGED <<aug_methods, checkpoint_dir, results_wrn40x2, results_wrn28x2,
                   comparison>>
    /\ UNCHANGED runVars

\* paper_results of the running call (lines 97-103, 115)
PaperResults == IF stage = "wrn40x2" THEN "paper_results_wrn40x2" ELSE "None"

\* the module-level assignment of the value the call returns
Bind(value) ==
    IF stage = "wrn40x2"
    THEN /\ results_wrn40x2' = value
         /\ stage' = "between"
         /\ UNCHANGED results_wrn28x2
    ELSE /\ results_wrn28x2' = value
         /\ stage' = "compare"
         /\ UNCHANGED results_wrn40x2

\* lines 59-89: the loop is over and all_results is not empty
ReturnResults ==
    /\ pc = "loop"
    /\ HasResults(all_results)
    /\ out' = Report(aug_methods, results_by_method, all_results, PaperResults)
    /\ Bind(Dict(results_by_method))
    /\ NoCall
    /\ UNCHANGED <<aug_methods, comparison, raised, loaded>>
    /\ UNCHANGED runVars

\* lines 90-92: the loop is over and all_results is empty
ReturnNone ==
    /\ pc = "loop"
    /\ ~HasResults(all_results)
    /\ out' = NoCheckpoints(checkpoint_dir)
    /\ Bind(None)
    /\ NoCall
    /\ UNCHANGED <<aug_methods, comparison, raised, loaded>>
    /\ UNCHANGED runVars

\* lines 125-142
ComparisonSummary ==
    /\ stage = "compare"
    /\ BothPresent(results_wrn40x2, results_wrn28x2)
    /\ comparison' = [printed |-> TRUE,
                      rows |-> ComparisonRows(aug_methods, results_wrn40x2.value,
                                              results_wrn28x2.value, 1)]
    /\ out' = [kind |-> "comparison"]
    /\ stage' = "done"
    /\ UNCHANGED <<aug_methods, results_wrn40x2, results_wrn28x2, pc, checkpoint_dir,
                   visited, ckpt_path, artifact, filename, method, results_by_method,
                   all_results, raised, loaded>>
    /\ UNCHANGED runVars

\* line 125 is false: the script ends without a comparison
NoComparison ==
    /\ stage = "compare"
    /\ ~BothPresent(results_wrn40x2, results_wrn28x2)
    /\ stage' = "done"
    /\ UNCHANGED <<aug_methods, results_wrn40x2, results_wrn28x2, comparison, pc,
                   checkpoint_dir, visited, ckpt_path, artifact, filename, method,
                   results_by_method, all_results, out, raised, loaded>>
    /\ UNCHANGED runVars

-----------------------------------------------------------------------------
(* The classification of one path, over a wide set of paths                *)

\* what can stand before, in place of, and behind a registry prefix
NameHeads ==
    { <<>>,
      <<"x","\\">>,
      <<"e","x","p","F","A","A","\\">>,
      <<"a","\\","b","\\">> }

NameStems ==
    { AugMethods[i].prefix : i \in 1..Len(AugMethods) }
      \cup { <<"e","x","p","U","A">>,
             <<"e","x","p","T","A">>,
             <<"e","x","p","T","A","w","i","d">>,
             <<"e","x","p","F","A">>,
             <<"E","x","p","F","A","A">>,
             <<"x","e","x","p","F","A","A">>,
             <<"g","a","r","b","a","g","e">> }

NameTails ==
    { <<>>,
      <<"_","1">>,
      <<"\\","z">> }

ClassifyStems == { h \o st \o t : h \in NameHeads, st \in NameStems, t \in NameTails }

ClassifyPaths == GlobPaths(Wrn40x2, ClassifyStems) \cup GlobPaths(Wrn28x2, ClassifyStems)

ClassifyInit ==
    /\ aug_methods = AugMethods
    /\ stage = "wrn40x2"
    /\ results_wrn40x2 = Unbound
    /\ results_wrn28x2 = Unbound
    /\ comparison = NotPrinted
    /\ pc = "classify"
    /\ checkpoint_dir = NoPath
    /\ visited = {}
    /\ ckpt_path \in ClassifyPaths
    /\ artifact = NoFile
    /\ filename = NoPath
    /\ method = Unclassified
    /\ results_by_method = NewResultsByMethod(AugMethods)
    /\ all_results = <<>>
    /\ out = Silent
    /\ raised = NoException
    /\ loaded = [d \in {"wrn40x2", "wrn28x2"} |-> [seen |-> 0, ok |-> 0]]

\* lines 42-48 applied to ckpt_path
ClassifyPath ==
    /\ pc = "classify"
    /\ filename' = BareFilename(ckpt_path)
    /\ method' = MatchMethod(aug_methods, BareFilename(ckpt_path))
    /\ pc' = "classified"
    /\ UNCHANGED <<aug_methods, stage, results_wrn40x2, results_wrn28x2, comparison,
                   checkpoint_dir, visited, ckpt_path, artifact, results_by_method,
                   all_results, out, raised, loaded>>
    /\ UNCHANGED runVars

-----------------------------------------------------------------------------
(* run_experiments.py                                                      *)

NUM_RUNS == 10

\* what the operator can type at the prompt of line 90
Answers ==
    { <<"1">>,
      <<"2">>,
      <<" ","2"," ">>,
      <<>>,
      <<"2","2">>,
      <<"y">> }

RECURSIVE LStrip(_)
LStrip(s) == IF s # <<>> /\ s[1] = " " THEN LStrip(Tail(s)) ELSE s

RECURSIVE RStrip(_)
RStrip(s) ==
    IF s # <<>> /\ s[Len(s)] = " " THEN RStrip(SubSeq(s, 1, Len(s) - 1)) ELSE s

\* str.strip
Strip(s) == RStrip(LStrip(s))

\* the answer compared with the number 2, which no string equals
StopChosen_Number(c) == FALSE

\* line 92
StopChosen(c) == c = <<"2">>

RunIdle ==
    /\ rpc = "off"
    /\ run_num = 0
    /\ results = <<>>
    /\ launched = <<>>
    /\ choice = <<>>
    /\ success_count = 0

\* main is entered: lines 67-78
RunStart ==
    /\ rpc = "start"
    /\ run_num = 0
    /\ results = <<>>
    /\ launched = <<>>
    /\ choice = <<>>
    /\ success_count = 0

\* line 81 and lines 23-47: the loop takes the next run number and hands it
\* to subprocess.run, or the range is exhausted and the loop ends
NextRun ==
    IF run_num < NUM_RUNS
    THEN /\ run_num' = run_num + 1
         /\ launched' = Append(launched, run_num + 1)
         /\ rpc' = "running"
    ELSE /\ rpc' = "summary"
         /\ UNCHANGED <<run_num, launched>>

\* the first iteration
FirstRun ==
    /\ rpc = "start"
    /\ NextRun
    /\ UNCHANGED <<results, choice, success_count>>
    /\ UNCHANGED aggVars

\* lines 48-55, 83: the subprocess exits with code 0
RunSucceeds ==
    /\ rpc = "running"
    /\ results' = Append(results, <<run_num, TRUE>>)
    /\ NextRun
    /\ UNCHANGED <<choice, success_count>>
    /\ UNCHANGED aggVars

\* lines 57-62, 83, 86-89: the subprocess exits with another code
RunFails ==
    /\ rpc = "running"
    /\ results' = Append(results, <<run_num, FALSE>>)
    /\ rpc' = "prompt"
    /\ UNCHANGED <<run_num, launched, choice, success_count>>
    /\ UNCHANGED aggVars

\* lines 90-94: the operator answers
Answer ==
    /\ rpc = "prompt"
    /\ \E typed \in Answers :
         /\ choice' = Strip(typed)
         /\ IF StopChosen(Strip(typed))
            THEN /\ rpc' = "summary"
                 /\ UNCHANGED <<run_num, launched>>
            ELSE NextRun
    /\ UNCHANGED <<results, success_count>>
    /\ UNCHANGED aggVars

\* line 90: input() meets the end of standard input; EOFError is not caught
EndOfInput ==
    /\ rpc = "prompt"
    /\ rpc' = "crashed"
    /\ UNCHANGED <<run_num, results, launched, choice, success_count>>
    /\ UNCHANGED aggVars

\* lines 124-128: KeyboardInterrupt while a run or the prompt is waiting
Interrupt ==
    /\ rpc \in {"running", "prompt"}
    /\ rpc' = "interrupted"
    /\ UNCHANGED <<run_num, results, launched, choice, success_count>>
    /\ UNCHANGED aggVars

\* lines 107-112
RECURSIVE CountSuccess(_)
CountSuccess(rs) ==
    IF rs = <<>> THEN 0
    ELSE (IF rs[1][2] THEN 1 ELSE 0) + CountSuccess(Tail(rs))

\* lines 96-120
Summary ==
    /\ rpc = "summary"
    /\ success_count' = CountSuccess(results)
    /\ rpc' = "done"
    /\ UNCHANGED <<run_num, results, launched, choice>>
    /\ UNCHANGED aggVars

-----------------------------------------------------------------------------
(* Specifications                                                          *)

\* results.py run as a script
Init == AggInit /\ RunIdle

Next ==
    \/ Call40
    \/ ScanCheckpoint
    \/ ReturnResults
    \/ ReturnNone
    \/ Call28
    \/ ComparisonSummary
    \/ NoComparison

Spec == Init /\ [][Next]_vars

\* the classification of a path
InitClassify == ClassifyInit /\ RunIdle

NextClassify == ClassifyPath

SpecClassify == InitClassify /\ [][NextClassify]_vars

\* run_experiments.py run as a script
InitRunner == AggInit /\ RunStart

NextRunner ==
    \/ FirstRun
    \/ RunSucceeds
    \/ RunFails
    \/ Answer
    \/ EndOfInput
    \/ Interrupt
    \/ Summary

SpecRunner == InitRunner /\ [][NextRunner]_vars

-----------------------------------------------------------------------------
(* Properties                                                              *)

\* the step is one iteration of the scan loop
ScanStep ==
    /\ pc = "loop"
    /\ ckpt_path' \notin visited
    /\ visited' = visited \cup {ckpt_path'}

\* the state follows an iteration of the scan loop that returned to the loop
AfterScan == pc = "loop" /\ ckpt_path # NoPath

\* the load failures of a file: it cannot be deserialized, or its record
\* lacks 'log', 'log.test' or 'log.test.top1'
LoadFails(file) ==
    \/ ~file.readable
    \/ "log" \notin DOMAIN file.ckpt
    \/ "test" \notin DOMAIN file.ckpt.log
    \/ "top1" \notin DOMAIN file.ckpt.log.test

\* index of the last forward slash or backslash of path, 0 without one
LastSeparator(path) ==
    LET seps == {i \in 1..Len(path) : path[i] \in {Slash, Backslash}}
    IN  IF seps = {} THEN 0 ELSE CHOOSE i \in seps : \A j \in seps : j <= i

\* path with everything up to its last separator removed
NameOf(path) == SubSeq(path, LastSeparator(path) + 1, Len(path))

\* p is a prefix of name
IsPrefix(p, name) ==
    /\ Len(p) <= Len(name)
    /\ \A j \in 1..Len(p) : name[j] = p[j]

\* registry positions whose prefix is a prefix of name
Hits(name) == {i \in 1..Len(AugMethods) : IsPrefix(AugMethods[i].prefix, name)}

\* the label of the first registry entry, in registry order, whose prefix
\* is a prefix of the bare name of path
ExpectedMethod(path) ==
    LET hits == Hits(NameOf(path))
    IN  IF hits = {} THEN Unclassified
        ELSE AugMethods[CHOOSE i \in hits : \A j \in hits : i <= j].label

\* C1: an iteration of the scan over a file whose load fails adds nothing to
\* all_results and nothing to any method's sample, lets no exception leave
\* process_checkpoint_dir, and leaves the scan in its loop, ready for the
\* remaining files.
C1_FailedLoadContained ==
    [][ (ScanStep /\ LoadFails(artifact'))
        => /\ all_results' = all_results
           /\ results_by_method' = results_by_method
           /\ raised' = NoException
           /\ pc' = "loop"
           /\ stage' = stage ]_vars

\* a file without log.test.top1, named after a registry method, was skipped
\* after another file had been loaded, and the scan goes on
C1_Witness ==
    /\ AfterScan
    /\ artifact.readable
    /\ "log" \in DOMAIN artifact.ckpt
    /\ "test" \in DOMAIN artifact.ckpt.log
    /\ "top1" \notin DOMAIN artifact.ckpt.log.test
    /\ ExpectedMethod(ckpt_path) # Unclassified
    /\ Len(all_results) = 1
    /\ raised = NoException

\* C2: after every iteration of the scan over a file whose load fails, the
\* step has printed an error line carrying the file's path and the cause.
C2_SkipReported ==
    (AfterScan /\ LoadFails(artifact))
        => /\ out.kind = "error"
           /\ out.path = ckpt_path
           /\ out.cause \in ExceptionClasses

\* C3: an iteration of the scan over a file that loads appends exactly one
\* row to all_results; if no registry prefix is a prefix of its bare name no
\* sample changes, otherwise exactly one method's sample grows, by the one
\* value accuracy times 100; a file that does not load appends no row; and
\* all_results holds one row per file loaded so far.
C3_OneRowOneSample ==
    /\ [][ (ScanStep /\ LoadsOk(artifact'))
           => LET grown == {m \in DOMAIN results_by_method :
                               results_by_method'[m] # results_by_method[m]}
                  acc   == artifact'.ckpt.log.test.top1.v
              IN  /\ Len(all_results') = Len(all_results) + 1
                  /\ SubSeq(all_results', 1, Len(all_results)) = all_results
                  /\ all_results'[Len(all_results')].Checkpoint = NameOf(ckpt_path')
                  /\ IF Hits(NameOf(ckpt_path')) = {}
                     THEN grown = {}
                     ELSE /\ grown = {ExpectedMethod(ckpt_path')}
                          /\ \A m \in grown :
                               results_by_method'[m]
                                 = Append(results_by_method[m], acc * 100) ]_vars
    /\ [][ (ScanStep /\ ~LoadsOk(artifact')) => all_results' = all_results ]_vars
    /\ [](pc = "loop" => Len(all_results) = loaded[stage].ok)

\* two files were loaded, the first classified, the second matching no
\* prefix: two rows, one sample
C3_Witness ==
    /\ AfterScan
    /\ LoadsOk(artifact)
    /\ Hits(NameOf(ckpt_path)) = {}
    /\ Len(all_results) = 2
    /\ \E m \in DOMAIN results_by_method : Len(results_by_method[m]) = 1
    /\ \A m \in DOMAIN results_by_method : Len(results_by_method[m]) <= 1
    /\ Cardinality({m \in DOMAIN results_by_method : results_by_method[m] # <<>>}) = 1

\* C4: the label the classification loop stops at is that of the first
\* registry entry, in registry order, whose prefix is a prefix of the path
\* with everything up to its last forward slash or backslash removed, and
\* is "unclassified" when there is no such entry; the bare name the code
\* computes is that remainder of the path.
C4_FirstPrefixWins ==
    pc = "classified"
        => /\ filename = NameOf(ckpt_path)
           /\ method = ExpectedMethod(ckpt_path)

\* a name behind a backslash, carrying the last registry prefix, classified
C4_Witness ==
    /\ pc = "classified"
    /\ method = "TA (Wide)"
    /\ ckpt_path[LastSeparator(ckpt_path)] = Backslash

\* C5: wherever a row is built from a sample of exactly one value, in the
\* aggregated table or in the comparison, its half-width is not NaN.
C5_SingleSampleDefined ==
    /\ out.kind = "report"
         => \A i \in DOMAIN out.aggregated :
              (~out.aggregated[i].na /\ out.aggregated[i].n = 1)
                 => out.aggregated[i].ci.text # "nan"
    /\ comparison.printed
         => \A i \in DOMAIN comparison.rows :
              LET row == comparison.rows[i]
              IN  /\ Len(results_wrn40x2.value[row.method]) = 1
                       => row.ci_40.text # "nan"
                  /\ Len(results_wrn28x2.value[row.method]) = 1
                       => row.ci_28.text # "nan"

\* the value a call of process_checkpoint_dir must return for directory d
ExpectedReturn(d, value) ==
    IF loaded[d].ok = 0 THEN value.tag = "None" ELSE value.tag = "dict"

\* C6: process_checkpoint_dir returns None, and prints the 'no checkpoints
\* found' line, exactly when the scan loaded no file of the directory;
\* otherwise it returns the mapping of its samples; no exception leaves it.
C6_NoneIffNothingLoaded ==
    /\ [](raised = NoException)
    /\ [](results_wrn40x2 # Unbound => ExpectedReturn("wrn40x2", results_wrn40x2))
    /\ [](results_wrn28x2 # Unbound => ExpectedReturn("wrn28x2", results_wrn28x2))
    /\ [](stage = "between"
            => (results_wrn40x2.tag = "None" <=> out = NoCheckpoints(Wrn40x2)))
    /\ [](stage = "compare"
            => (results_wrn28x2.tag = "None" <=> out = NoCheckpoints(Wrn28x2)))
    /\ [][ (pc = "loop" /\ pc' = "idle" /\ loaded[stage].ok > 0)
           => (IF stage = "wrn40x2" THEN results_wrn40x2' ELSE results_wrn28x2')
                 = Dict(results_by_method) ]_vars

\* every file of the first directory failed to load and None came back; a
\* directory without files gave None too
C6_Witness ==
    /\ stage = "compare"
    /\ loaded["wrn40x2"].seen = MaxFiles
    /\ results_wrn40x2.tag = "None"
    /\ loaded["wrn28x2"].seen = 0
    /\ results_wrn28x2.tag = "None"
    /\ out = NoCheckpoints(Wrn28x2)

\* registry positions whose method has a sample on both sides
OnBothSides(r40, r28) ==
    {i \in 1..Len(AugMethods) :
        r40[AugMethods[i].label] # <<>> /\ r28[AugMethods[i].label] # <<>>}

\* hundredths of the first mean minus the second mean
MeanDifference(a, b) ==
    (((SumSeq(a) \div Len(a)) - (SumSeq(b) \div Len(b))) + 5) \div 10

\* C7: when the script has ended, the comparison was printed exactly when
\* both directories gave a result; it holds one row for each registry
\* method with a sample on both sides and no row for any other method, and
\* a row's difference is the first model's mean minus the second's.
C7_ComparisonRows ==
    stage = "done"
        => /\ comparison.printed
                <=> (loaded["wrn40x2"].ok > 0 /\ loaded["wrn28x2"].ok > 0)
           /\ comparison.printed
                => LET r40  == results_wrn40x2.value
                       r28  == results_wrn28x2.value
                       rows == comparison.rows
                   IN  /\ Len(rows) = Cardinality(OnBothSides(r40, r28))
                       /\ {rows[k].method : k \in DOMAIN rows}
                            = {AugMethods[i].label : i \in OnBothSides(r40, r28)}
                       /\ \A k \in DOMAIN rows :
                            rows[k].diff.h
                              = MeanDifference(r40[rows[k].method], r28[rows[k].method])

\* a comparison with a negative difference, and a method that has samples
\* on the first side only and no row
C7_Witness ==
    /\ stage = "done"
    /\ comparison.printed
    /\ \E k \in DOMAIN comparison.rows : comparison.rows[k].diff.h < 0
    /\ \E m \in DOMAIN results_wrn40x2.value :
         /\ results_wrn40x2.value[m] # <<>>
         /\ results_wrn28x2.value[m] = <<>>
         /\ \A k \in DOMAIN comparison.rows : comparison.rows[k].method # m

\* the result bound by the call whose report is in out
ReportedResult == IF stage = "between" THEN results_wrn40x2 ELSE results_wrn28x2

\* C8: a call that loaded a file prints the aggregated table; the table
\* has one row per registry method, in registry order, "N/A" for a method
\* without samples and the count n for a method with n >= 1 samples; the
\* returned mapping has an entry for every registry method.
C8_RowPerMethod ==
    /\ \A r \in {results_wrn40x2, results_wrn28x2} :
         r.tag = "dict" => DOMAIN r.value = {AugMethods[i].label : i \in 1..Len(AugMethods)}
    /\ (stage = "between" /\ loaded["wrn40x2"].ok > 0) => out.kind = "report"
    /\ (stage = "compare" /\ loaded["wrn28x2"].ok > 0) => out.kind = "report"
    /\ out.kind = "report"
         => /\ Len(out.aggregated) = Len(AugMethods)
            /\ \A i \in 1..Len(AugMethods) :
                 LET row  == out.aggregated[i]
                     accs == ReportedResult.value[AugMethods[i].label]
                 IN  /\ row.method = AugMethods[i].label
                     /\ row.na <=> accs = <<>>
                     /\ ~row.na => (row.n = Len(accs) /\ row.n >= 1)

\* a table with an N/A row and a row of two samples
C8_Witness ==
    /\ out.kind = "report"
    /\ \E i \in DOMAIN out.aggregated : out.aggregated[i].na
    /\ \E i \in DOMAIN out.aggregated :
         ~out.aggregated[i].na /\ out.aggregated[i].n = 2

\* C9: the runs handed to subprocess.run are 1, 2, ... in this order, at
\* most NUM_RUNS of them; a run is started only when every earlier run has
\* its result recorded; the operator is asked after a failed run and only
\* then; once the operator has answered "2" no run is started;
\* an answer other than "2", given while run numbers remain, starts the run
\* with the next number; and when the loop is over the recorded results are
\* the runs started, in order.
C9_SequentialRuns ==
    /\ [](/\ Len(launched) <= NUM_RUNS
          /\ \A i \in DOMAIN launched : launched[i] = i
          /\ Len(results) <= Len(launched)
          /\ Len(launched) - Len(results) <= 1)
    /\ [][ launched' # launched
           => /\ Len(results') = Len(launched)
              /\ launched' = Append(launched, Len(launched) + 1) ]_vars
    /\ [][ Len(results') = Len(results) + 1
           => (rpc' = "prompt" <=> ~results'[Len(results')][2]) ]_vars
    /\ [][ choice = <<"2">> => launched' = launched ]_vars
    /\ [][ (rpc = "prompt" /\ rpc' \in {"running", "summary"}
              /\ choice' # <<"2">> /\ run_num < NUM_RUNS)
           => launched' = Append(launched, run_num + 1) ]_vars
    /\ [](rpc \in {"summary", "done"}
            => /\ Len(results) = Len(launched)
               /\ \A i \in DOMAIN results : results[i][1] = launched[i])

\* the operator stopped the batch after a failed third run, having let it
\* go on after a failed first run
C9_Witness ==
    /\ rpc = "done"
    /\ choice = <<"2">>
    /\ Len(results) = 3
    /\ ~results[1][2]
    /\ results[2][2]
    /\ ~results[3][2]
    /\ launched = <<1, 2, 3>>

\* number of values in all samples of a mapping
RECURSIVE TotalSamples(_, _)
TotalSamples(m, i) ==
    IF i > Len(AugMethods) THEN 0
    ELSE Len(m[AugMethods[i].label]) + TotalSamples(m, i + 1)

\* C10: every call of process_checkpoint_dir starts from empty samples and
\* an empty list of rows; a result holds no more values than its own
\* directory has files; once a result is bound it never changes, whatever
\* the later call and the comparison do; the registry never changes.
C10_CallsIndependent ==
    /\ [](pc = "loop" /\ visited = {}
            => /\ all_results = <<>>
               /\ \A m \in DOMAIN results_by_method : results_by_method[m] = <<>>)
    /\ [](\A d \in {"wrn40x2", "wrn28x2"} :
            LET r == IF d = "wrn40x2" THEN results_wrn40x2 ELSE results_wrn28x2
            IN  r.tag = "dict" => TotalSamples(r.value, 1) <= loaded[d].seen)
    /\ [][ results_wrn40x2 # Unbound => results_wrn40x2' = results_wrn40x2 ]_vars
    /\ [][ results_wrn28x2 # Unbound => results_wrn28x2' = results_wrn28x2 ]_vars
    /\ [](aug_methods = AugMethods)

\* both directories gave a result, and a method with samples in the first
\* has none in the second
C10_Witness ==
    /\ stage = "done"
    /\ results_wrn40x2.tag = "dict"
    /\ results_wrn28x2.tag = "dict"
    /\ results_wrn40x2.value["FAA (RA)"] # <<>>
    /\ results_wrn28x2.value["FAA (RA)"] = <<>>
    /\ results_wrn28x2.value["UA (UA)"] # <<>>

====
